---- MODULE Spec2Model ----
(***************************************************************************)
(* Budget Buddy backend (src/app.py): a Flask application with a process-  *)
(* wide Gemini client handle `model`, a health check route GET /check and  *)
(* a query route POST /api/execute.                                        *)
(*                                                                         *)
(* Strings the handlers inspect (the query) are sequences of one-character *)
(* strings; strings the handlers only pass along (messages, upstream text, *)
(* error details) are TLA+ strings.  An f-string is the sequence of its    *)
(* literal part and its interpolated parts.                                *)
(***************************************************************************)
EXTENDS Integers, Sequences, FiniteSets, TLC

\* ------------------------------------------------------------------ bounds
MaxRequests == 2        \* requests the server handles at the same time
MaxLen == 2             \* longest query string that is enumerated

\* --------------------------------------------------------------- constants
MODEL_TO_USE == "gemini-2.5-flash"

None == "<None>"                    \* Python's None for API_KEY and model
Unbound == "<unbound>"              \* a module global not assigned yet
GenerativeModel == "GenerativeModel(gemini-2.5-flash)"

Alphabet == {" ", "a"}
Whitespace == {" ", "\t", "\n", "\r"}

MsgNotInitialized == "AI service not initialized. Check API key configuration."
MsgInvalidJson == "Invalid or missing JSON payload."
MsgMissingQuery == "Missing or empty \"query\" field in the request."
MsgUpstreamPrefix == "AI Service Unavailable or request error: "
MsgInternal == "An unexpected internal server error occurred."
MsgModelFailed == "AI model failed to initialize due to missing or invalid API key."
MsgCheckOk == "backend is running"
MsgCheckFailed == "backend is running, but AI model failed to initialize."

\* --------------------------------------------------------- Python values
\* A JSON / Python value: t is its type, b its boolean, n its number or its
\* number of elements (list, dict), s its characters (str).
JNull == [t |-> "null", b |-> FALSE, n |-> 0, s |-> <<>>]
JBool(x) == [t |-> "bool", b |-> x, n |-> 0, s |-> <<>>]
JNum(k) == [t |-> "num", b |-> FALSE, n |-> k, s |-> <<>>]
JStr(str) == [t |-> "str", b |-> FALSE, n |-> 0, s |-> str]
JList(k) == [t |-> "list", b |-> FALSE, n |-> k, s |-> <<>>]
JDict(k) == [t |-> "dict", b |-> FALSE, n |-> k, s |-> <<>>]

\* Python truth value testing, as `not x` uses it.
Truthy(v) ==
    CASE v.t = "null" -> FALSE
      [] v.t = "bool" -> v.b
      [] v.t = "num" -> v.n # 0
      [] v.t = "str" -> Len(v.s) > 0
      [] OTHER -> v.n > 0

\* isinstance(v, str)
IsStr(v) == v.t = "str"

RECURSIVE lstrip(_)
lstrip(s) ==
    IF s = <<>> THEN s
    ELSE IF Head(s) \in Whitespace THEN lstrip(Tail(s)) ELSE s

RECURSIVE rstrip(_)
rstrip(s) ==
    IF s = <<>> THEN s
    ELSE IF s[Len(s)] \in Whitespace THEN rstrip(SubSeq(s, 1, Len(s) - 1)) ELSE s

\* str.strip()
strip(s) == rstrip(lstrip(s))

\* ------------------------------------------------------- request bodies
Strings == UNION {[1..k -> Alphabet] : k \in 0..MaxLen}

Scalars ==
    {JNull, JBool(FALSE), JBool(TRUE), JNum(0), JNum(1), JList(0), JList(1),
     JDict(0), JDict(1)}

QueryValues == Scalars \cup {JStr(s) : s \in Strings}

\* A body: absent, text that is not JSON, or a JSON value.  For a JSON
\* object, hasQuery says whether it has the key "query" and q is its value.
Body(kind, val, hasQuery, q) ==
    [kind |-> kind, val |-> val, hasQuery |-> hasQuery, q |-> q]

Bodies ==
    {Body("absent", JNull, FALSE, JNull), Body("malformed", JNull, FALSE, JNull)}
    \cup {Body("json", v, FALSE, JNull) :
            v \in (Scalars \ {JDict(1)}) \cup {JStr(<<>>), JStr(<<"a">>)}}
    \cup {Body("json", JDict(1), FALSE, JNull)}
    \cup {Body("json", JDict(1), TRUE, q) : q \in QueryValues}

\* request.get_json(silent=True): the parsed value, None when there is no
\* body or it does not parse.
get_json(body) == IF body.kind = "json" THEN body ELSE Body("json", JNull, FALSE, JNull)

\* ------------------------------------------------------------ responses
Response(status, keys, error, success, result, st, message, mdl, escaped) ==
    [status |-> status, keys |-> keys, error |-> error, success |-> success,
     result |-> result, st |-> st, message |-> message, model |-> mdl,
     escaped |-> escaped]

NoResponse == Response(0, {}, <<>>, FALSE, "", "", "", "", "")

\* jsonify({'error': ...}), status
ErrorResponse(status, error) ==
    Response(status, {"error"}, error, FALSE, "", "", "", "", "")

\* jsonify({'success': True, 'result': result})
SuccessResponse(result) ==
    Response(200, {"success", "result"}, <<>>, TRUE, result, "", "", "", "")

\* jsonify({'status': ..., 'message': ..., 'model': ...}), status_code
CheckResponse(status, st, message) ==
    Response(status, {"status", "message", "model"}, <<>>, FALSE, "", st, message,
             MODEL_TO_USE, "")

\* An exception that leaves the view function: the handler built no response.
Escaped(exc) == Response(0, {}, <<>>, FALSE, "", "", "", "", exc)

\* ------------------------------------------------------ upstream outcomes
Texts == {"", "Try the $20 mat instead."}
Details == {"429 quota exceeded"}

Outcome(kind, text) == [kind |-> kind, text |-> text]
NoOutcome == Outcome("none", "")

Outcomes ==
    {Outcome("text", t) : t \in Texts}
    \cup {Outcome("APIError", d) : d \in Details}
    \cup {Outcome("Exception", d) : d \in Details}

\* ------------------------------------------------------------------ state
VARIABLES
    phase,          \* "load", "configure" (module import), then "serving"
    API_KEY,        \* os.environ.get("GOOGLE_API_KEY")
    model,          \* the process-wide client handle
    pc,             \* per request: "idle", "check", "execute", "try", "upstream", "done"
    route,          \* per request: the route it was sent to
    body,           \* per request: the body it carries
    query,          \* per request: execute's local `query`
    prompt,         \* per request: the contents given to model.generate_content
    executorCalls,  \* per request: calls of execute_budget_buddy
    upstreamCalls,  \* per request: calls of model.generate_content
    outcome,        \* per request: how the upstream call ended
    resp            \* per request: the response

vars ==
    <<phase, API_KEY, model, pc, route, body, query, prompt, executorCalls,
      upstreamCalls, outcome, resp>>

startupVars == <<phase, API_KEY, model>>
requestVars ==
    <<pc, route, body, query, prompt, executorCalls, upstreamCalls, outcome, resp>>

Requests == 1..MaxRequests

NoBody == Body("absent", JNull, FALSE, JNull)

\* `not model` is false exactly for a GenerativeModel instance.
Usable(m) == m = GenerativeModel

Init ==
    /\ phase = "load"
    /\ API_KEY = Unbound
    /\ model = Unbound
    /\ pc = [r \in Requests |-> "idle"]
    /\ route = [r \in Requests |-> ""]
    /\ body = [r \in Requests |-> NoBody]
    /\ query = [r \in Requests |-> <<>>]
    /\ prompt = [r \in Requests |-> <<>>]
    /\ executorCalls = [r \in Requests |-> 0]
    /\ upstreamCalls = [r \in Requests |-> 0]
    /\ outcome = [r \in Requests |-> NoOutcome]
    /\ resp = [r \in Requests |-> NoResponse]

\* ---------------------------------------------------------------- startup
\* API_KEY = os.environ.get("GOOGLE_API_KEY"): unset, empty, or some key.
LoadCredential ==
    /\ phase = "load"
    /\ \E k \in {None, "", "key"} : API_KEY' = k
    /\ phase' = "configure"
    /\ UNCHANGED <<model, requestVars>>

\* The try block of the module body: with a key, genai.configure and
\* GenerativeModel(...) either succeed or raise; without one, model = None.
ConfigureModel ==
    /\ phase = "configure"
    /\ IF API_KEY \notin {None, ""}
       THEN \E raised \in BOOLEAN :
                model' = IF raised THEN None ELSE GenerativeModel
       ELSE model' = None
    /\ phase' = "serving"
    /\ UNCHANGED <<API_KEY, requestVars>>

\* ---------------------------------------------------------------- requests
\* A client sends GET /check or POST /api/execute with some body.
Arrive(r) ==
    /\ phase = "serving"
    /\ pc[r] = "idle"
    /\ \E rt \in {"check", "execute"} :
          /\ route' = [route EXCEPT ![r] = rt]
          /\ pc' = [pc EXCEPT ![r] = rt]
          /\ \E b \in (IF rt = "check" THEN {NoBody} ELSE Bodies) :
                body' = [body EXCEPT ![r] = b]
    /\ UNCHANGED <<startupVars, query, prompt, executorCalls, upstreamCalls,
                   outcome, resp>>

\* Variant: status_code is never set to 503.
check_view_always200(m) ==
    LET status_code == 200
        message == IF ~Usable(m) THEN MsgCheckFailed ELSE MsgCheckOk
    IN  CheckResponse(status_code, IF status_code = 200 THEN "ok" ELSE "error",
                      message)

\* The response of check() for the handle m.
check_view(m) ==
    LET status_code == IF ~Usable(m) THEN 503 ELSE 200
        message == IF ~Usable(m) THEN MsgCheckFailed ELSE MsgCheckOk
    IN  CheckResponse(status_code, IF status_code = 200 THEN "ok" ELSE "error",
                      message)

check(r) ==
    /\ pc[r] = "check"
    /\ resp' = [resp EXCEPT ![r] = check_view(model)]
    /\ pc' = [pc EXCEPT ![r] = "done"]
    /\ UNCHANGED <<startupVars, route, body, query, prompt, executorCalls,
                   upstreamCalls, outcome>>

\* What execute() does before its try block, for the handle m and the body b:
\* a response, an exception that leaves the function, or the query to run.
Respond(response) == [next |-> "done", resp |-> response, query |-> <<>>]
Proceed(q) == [next |-> "try", resp |-> NoResponse, query |-> q]

\* Variant: the body checks come before the handle check.
Validate_bodyFirst(m, b) ==
    LET data == get_json(b) IN
    IF ~Truthy(data.val) THEN Respond(ErrorResponse(400, <<MsgInvalidJson>>))
    ELSE IF data.val.t # "dict" THEN Respond(Escaped("AttributeError"))
    ELSE
      LET q == IF data.hasQuery THEN data.q ELSE JNull IN
      IF ~Truthy(q) \/ ~IsStr(q) \/ ~Truthy(JStr(strip(q.s)))
      THEN Respond(ErrorResponse(400, <<MsgMissingQuery>>))
      ELSE IF ~Usable(m) THEN Respond(ErrorResponse(503, <<MsgNotInitialized>>))
      ELSE Proceed(q.s)

\* Variant: the query is trimmed when it is read (data.get('query').strip()).
Validate_stripped(m, b) ==
    IF ~Usable(m) THEN Respond(ErrorResponse(503, <<MsgNotInitialized>>))
    ELSE
      LET data == get_json(b) IN
      IF ~Truthy(data.val) THEN Respond(ErrorResponse(400, <<MsgInvalidJson>>))
      ELSE IF data.val.t # "dict" THEN Respond(Escaped("AttributeError"))
      ELSE
        LET q == IF data.hasQuery THEN data.q ELSE JNull IN
        IF ~Truthy(q) \/ ~IsStr(q) \/ ~Truthy(JStr(strip(q.s)))
        THEN Respond(ErrorResponse(400, <<MsgMissingQuery>>))
        ELSE Proceed(strip(q.s))

\* Variant: the `if not data` check is missing, so None.get(...) raises.
Validate_noPayloadCheck(m, b) ==
    IF ~Usable(m) THEN Respond(ErrorResponse(503, <<MsgNotInitialized>>))
    ELSE
      LET data == get_json(b) IN
      IF data.val.t # "dict" THEN Respond(Escaped("AttributeError"))
      ELSE
        LET q == IF data.hasQuery THEN data.q ELSE JNull IN
        IF ~Truthy(q) \/ ~IsStr(q) \/ ~Truthy(JStr(strip(q.s)))
        THEN Respond(ErrorResponse(400, <<MsgMissingQuery>>))
        ELSE Proceed(q.s)

Validate(m, b) ==
    IF ~Usable(m) THEN Respond(ErrorResponse(503, <<MsgNotInitialized>>))
    ELSE
      LET data == get_json(b) IN
      IF ~Truthy(data.val) THEN Respond(ErrorResponse(400, <<MsgInvalidJson>>))
      ELSE IF data.val.t # "dict" THEN Respond(Escaped("AttributeError"))
      ELSE
        LET q == IF data.hasQuery THEN data.q ELSE JNull IN
        IF ~Truthy(q) \/ ~IsStr(q) \/ ~Truthy(JStr(strip(q.s)))
        THEN Respond(ErrorResponse(400, <<MsgMissingQuery>>))
        ELSE Proceed(q.s)

execute(r) ==
    /\ pc[r] = "execute"
    /\ LET v == Validate(model, body[r]) IN
          /\ pc' = [pc EXCEPT ![r] = v.next]
          /\ resp' = [resp EXCEPT ![r] = v.resp]
          /\ query' = [query EXCEPT ![r] = v.query]
    /\ UNCHANGED <<startupVars, route, body, prompt, executorCalls,
                   upstreamCalls, outcome>>

\* Variant: `except Exception` comes first and catches APIError too.
HandleOutcome_genericFirst(o) ==
    CASE o.kind = "text" -> SuccessResponse(o.text)
      [] OTHER -> ErrorResponse(500, <<MsgInternal>>)

\* The except clauses and the return of execute()'s try block, for the way
\* execute_budget_buddy ended.
HandleOutcome(o) ==
    CASE o.kind = "text" -> SuccessResponse(o.text)
      [] o.kind = "APIError" -> ErrorResponse(503, <<MsgUpstreamPrefix, o.text>>)
      [] OTHER -> ErrorResponse(500, <<MsgInternal>>)

\* execute_budget_buddy(query) up to its call of model.generate_content.
execute_budget_buddy(r) ==
    /\ pc[r] = "try"
    /\ executorCalls' = [executorCalls EXCEPT ![r] = @ + 1]
    /\ IF ~Usable(model)
       THEN /\ outcome' = [outcome EXCEPT ![r] = Outcome("Exception", MsgModelFailed)]
            /\ resp' = [resp EXCEPT ![r] = HandleOutcome(outcome'[r])]
            /\ pc' = [pc EXCEPT ![r] = "done"]
            /\ UNCHANGED <<prompt, upstreamCalls>>
       ELSE /\ prompt' = [prompt EXCEPT ![r] = query[r]]
            /\ upstreamCalls' = [upstreamCalls EXCEPT ![r] = @ + 1]
            /\ pc' = [pc EXCEPT ![r] = "upstream"]
            /\ UNCHANGED <<outcome, resp>>
    /\ UNCHANGED <<startupVars, route, body, query>>

\* Variant: an APIError makes the handler drop the handle (model = None).
UpstreamReturn_invalidate(r) ==
    /\ pc[r] = "upstream"
    /\ \E o \in Outcomes :
          /\ outcome' = [outcome EXCEPT ![r] = o]
          /\ resp' = [resp EXCEPT ![r] = HandleOutcome(o)]
          /\ model' = IF o.kind = "APIError" THEN None ELSE model
    /\ pc' = [pc EXCEPT ![r] = "done"]
    /\ UNCHANGED <<phase, API_KEY, route, body, query, prompt, executorCalls,
                   upstreamCalls>>

\* Variant: a failed upstream call is made once more before it is reported.
UpstreamReturn_retry(r) ==
    /\ pc[r] = "upstream"
    /\ \E o \in Outcomes :
          IF o.kind # "text" /\ upstreamCalls[r] < 2
          THEN /\ upstreamCalls' = [upstreamCalls EXCEPT ![r] = @ + 1]
               /\ UNCHANGED <<outcome, resp, pc>>
          ELSE /\ outcome' = [outcome EXCEPT ![r] = o]
               /\ resp' = [resp EXCEPT ![r] = HandleOutcome(o)]
               /\ pc' = [pc EXCEPT ![r] = "done"]
               /\ UNCHANGED upstreamCalls
    /\ UNCHANGED <<startupVars, route, body, query, prompt, executorCalls>>

\* model.generate_content returns and response.text is read, or either
\* raises; execute() turns the outcome into its response.
UpstreamReturn(r) ==
    /\ pc[r] = "upstream"
    /\ \E o \in Outcomes :
          /\ outcome' = [outcome EXCEPT ![r] = o]
          /\ resp' = [resp EXCEPT ![r] = HandleOutcome(o)]
    /\ pc' = [pc EXCEPT ![r] = "done"]
    /\ UNCHANGED <<startupVars, route, body, query, prompt, executorCalls,
                   upstreamCalls>>

\* The response is sent; the worker takes the next request.
Finish(r) ==
    /\ pc[r] = "done"
    /\ pc' = [pc EXCEPT ![r] = "idle"]
    /\ route' = [route EXCEPT ![r] = ""]
    /\ body' = [body EXCEPT ![r] = NoBody]
    /\ query' = [query EXCEPT ![r] = <<>>]
    /\ prompt' = [prompt EXCEPT ![r] = <<>>]
    /\ executorCalls' = [executorCalls EXCEPT ![r] = 0]
    /\ upstreamCalls' = [upstreamCalls EXCEPT ![r] = 0]
    /\ outcome' = [outcome EXCEPT ![r] = NoOutcome]
    /\ resp' = [resp EXCEPT ![r] = NoResponse]
    /\ UNCHANGED startupVars

Next ==
    \/ LoadCredential
    \/ ConfigureModel
    \/ \E r \in Requests : Arrive(r)
    \/ \E r \in Requests : check(r)
    \/ \E r \in Requests : execute(r)
    \/ \E r \in Requests : execute_budget_buddy(r)
    \/ \E r \in Requests : UpstreamReturn(r)
    \/ \E r \in Requests : Finish(r)

Spec == Init /\ [][Next]_vars

TypeOK ==
    /\ phase \in {"load", "configure", "serving"}
    /\ model \in {Unbound, None, GenerativeModel}
    /\ \A r \in Requests : pc[r] \in {"idle", "check", "execute", "try", "upstream", "done"}

\* ------------------------------------------------------------ properties
\* A POST /api/execute request whose handling has ended.
ExecDone(r) == pc[r] = "done" /\ route[r] = "execute"

\* A GET /check request whose handling has ended.
CheckDone(r) == pc[r] = "done" /\ route[r] = "check"

\* The string has a character that is not whitespace.
NonBlank(str) == \E i \in 1..Len(str) : str[i] \notin Whitespace

\* The body is a JSON object whose "query" is a string that is not blank.
HasUsableQuery(b) ==
    /\ b.kind = "json"
    /\ b.val.t = "dict"
    /\ b.hasQuery
    /\ b.q.t = "str"
    /\ NonBlank(b.q.s)

EmptyObject == Body("json", JDict(0), FALSE, JNull)

\* C1: with a usable handle, every body that parses as JSON and has no usable
\* query (no `query` field whatever the top-level JSON type, or a `query`
\* that is empty, blank or not a string) is answered 400 and the Query
\* Executor is not invoked.
C1_NoUsableQueryIs400 ==
    \A r \in Requests :
        (ExecDone(r) /\ Usable(model) /\ body[r].kind = "json"
         /\ ~HasUsableQuery(body[r]))
        => (resp[r].status = 400 /\ executorCalls[r] = 0)

\* C2: with a usable handle, the body {} is answered 400 with the error
\* 'Missing or empty "query" field in the request.', not with the error
\* 'Invalid or missing JSON payload.'.
C2_EmptyObjectGetsQueryError ==
    \A r \in Requests :
        (ExecDone(r) /\ Usable(model) /\ body[r] = EmptyObject)
        => resp[r] =
             ErrorResponse(400, <<"Missing or empty \"query\" field in the request.">>)

\* The responses execute() itself defines.
HandlerDefined(rsp) ==
    /\ rsp.escaped = ""
    /\ \/ rsp.status = 200 /\ rsp.keys = {"success", "result"} /\ rsp.success
       \/ rsp.status = 400 /\ rsp.keys = {"error"}
       \/ /\ rsp.status = 500
          /\ rsp.keys = {"error"}
          /\ rsp.error = <<"An unexpected internal server error occurred.">>
       \/ rsp.status = 503 /\ rsp.keys = {"error"}

\* C3: every POST /api/execute request, for any handle, body and upstream
\* outcome, ends in one of the responses the handler defines (200, 400, 500,
\* 503); no exception leaves the handler.
C3_NoFailureEscapes ==
    \A r \in Requests : ExecDone(r) => HandlerDefined(resp[r])

\* C4: with an unusable handle, POST /api/execute answers 503 'AI service not
\* initialized' whatever the body is, and neither the Query Executor nor the
\* upstream API is invoked.
C4_UnusableHandleIs503 ==
    \A r \in Requests :
        (phase = "serving" /\ ~Usable(model) /\ route[r] = "execute")
        => /\ pc[r] \in {"execute", "done"}
           /\ executorCalls[r] = 0
           /\ upstreamCalls[r] = 0
           /\ pc[r] = "done" =>
                resp[r] = ErrorResponse(503,
                    <<"AI service not initialized. Check API key configuration.">>)

C4_Witness ==
    \E r \in Requests :
        ExecDone(r) /\ ~Usable(model) /\ HasUsableQuery(body[r])

\* C5: GET /check answers 200 iff the handle is usable and 503 otherwise; the
\* body's status is "ok" exactly with 200 and "error" exactly with 503; the
\* body always carries model = "gemini-2.5-flash".
C5_CheckReportsHandle ==
    \A r \in Requests :
        CheckDone(r)
        => /\ resp[r].status = (IF Usable(model) THEN 200 ELSE 503)
           /\ resp[r].st = "ok" <=> resp[r].status = 200
           /\ resp[r].st = "error" <=> resp[r].status = 503
           /\ "model" \in resp[r].keys
           /\ resp[r].model = "gemini-2.5-flash"

C5_Witness ==
    \E r \in Requests : CheckDone(r) /\ ~Usable(model) /\ resp[r].status = 503

\* The error message has the detail as one of its parts.
ContainsDetail(error, detail) == \E i \in 1..Len(error) : error[i] = detail

\* C6: with a usable handle, an APIError of the upstream call is answered 503
\* with a message that contains the error's detail; any other error is
\* answered 500 with the fixed generic message, which has no part of the
\* detail.
C6_UpstreamErrorMapping ==
    \A r \in Requests :
        (ExecDone(r) /\ Usable(model))
        => /\ outcome[r].kind = "APIError"
                => /\ resp[r].status = 503
                   /\ resp[r].keys = {"error"}
                   /\ ContainsDetail(resp[r].error, outcome[r].text)
           /\ outcome[r].kind = "Exception"
                => /\ resp[r].status = 500
                   /\ resp[r].keys = {"error"}
                   /\ resp[r].error = <<"An unexpected internal server error occurred.">>
                   /\ ~ContainsDetail(resp[r].error, outcome[r].text)

C6_Witness ==
    \E r, p \in Requests :
        /\ ExecDone(r) /\ outcome[r].kind = "APIError" /\ resp[r].status = 503
        /\ ExecDone(p) /\ outcome[p].kind = "Exception" /\ resp[p].status = 500

\* C7: with a usable handle and a JSON object body whose query is a non-blank
\* string, a successful upstream call is answered 200 with success true and
\* result equal to the upstream text, and the string given to the upstream
\* call is the received query itself, untrimmed.
C7_SuccessIsVerbatim ==
    \A r \in Requests :
        (route[r] = "execute" /\ Usable(model) /\ HasUsableQuery(body[r]))
        => /\ pc[r] \in {"upstream", "done"} => prompt[r] = body[r].q.s
           /\ (pc[r] = "done" /\ outcome[r].kind = "text")
                => /\ resp[r].status = 200
                   /\ resp[r].keys = {"success", "result"}
                   /\ resp[r].success
                   /\ resp[r].result = outcome[r].text

C7_Witness ==
    \E r \in Requests :
        /\ ExecDone(r)
        /\ body[r].q.s = <<" ", "a">>
        /\ outcome[r].kind = "text"
        /\ outcome[r].text # ""
        /\ resp[r].status = 200

\* C8: with a usable handle, a body that is absent or is not valid JSON is
\* answered 400 'Invalid or missing JSON payload.' and the Query Executor is
\* not invoked.
C8_InvalidJsonIs400 ==
    \A r \in Requests :
        (route[r] = "execute" /\ Usable(model)
         /\ body[r].kind \in {"absent", "malformed"})
        => /\ executorCalls[r] = 0
           /\ pc[r] \in {"execute", "done"}
           /\ pc[r] = "done" =>
                resp[r] = ErrorResponse(400, <<"Invalid or missing JSON payload.">>)

C8_Witness ==
    \E r, p \in Requests :
        /\ Usable(model)
        /\ ExecDone(r) /\ body[r].kind = "malformed"
        /\ ExecDone(p) /\ body[p].kind = "absent"

\* C9: the Client Handle is written once, at startup before any request is
\* served, and no step of any request changes it afterwards: once serving,
\* the handle keeps the value startup gave it.
C9_HandleWrittenOnce ==
    [][/\ phase = "serving" => (model' = model /\ phase' = "serving")
       /\ phase # "serving" =>
            (model = Unbound /\ \A r \in Requests : pc[r] = "idle" /\ pc'[r] = "idle")
       /\ phase' = "serving" => model' \in {None, GenerativeModel}]_vars

C9_Witness ==
    \E r, p \in Requests :
        /\ phase = "serving"
        /\ Usable(model)
        /\ r # p
        /\ ExecDone(r) /\ outcome[r].kind = "APIError"
        /\ pc[p] = "upstream"

\* C10: nothing is retried: a POST /api/execute request causes exactly one
\* upstream call when the handle is usable and the body passes validation
\* (also when that call fails) and none otherwise; GET /check invokes neither
\* the Query Executor nor the upstream API.
C10_NoRetry ==
    \A r \in Requests :
        /\ upstreamCalls[r] <= 1
        /\ executorCalls[r] <= 1
        /\ route[r] = "check" => (executorCalls[r] = 0 /\ upstreamCalls[r] = 0)
        /\ ExecDone(r) =>
             upstreamCalls[r] =
                (IF Usable(model) /\ HasUsableQuery(body[r]) THEN 1 ELSE 0)

C10_Witness ==
    \E r, p \in Requests :
        /\ ExecDone(r) /\ outcome[r].kind \in {"APIError", "Exception"}
        /\ upstreamCalls[r] = 1
        /\ CheckDone(p)

====
